---- MODULE Spec2Model ----
(***************************************************************************)
(* Device-side runtime of the TurbEye light-sensor firmware: setup(), the  *)
(* cooperative loop() with its three periodic tasks, the link supervisor   *)
(* (monitorWiFiConnection / connectToNYUWiFi) and the HTTP request server  *)
(* (handleRoot / handleData) over the shared latestData snapshot.          *)
(*                                                                         *)
(* loop() is unfolded at statement granularity: pc names the source line   *)
(* the single thread is about to execute.  Each called function (a task    *)
(* body) is one atomic step, since nothing can interleave with it.         *)
(***************************************************************************)
EXTENDS Integers, Sequences, FiniteSets, TLC

\* ---------------------------------------------------------------- constants
sensorInterval == 500
wifiCheckInterval == 10000
wifiLogInterval == 30000
\* attempts < 30 in connectToNYUWiFi
MaxAttempts == 30
\* delay(2000) at the top of setup()
BootDelay == 2000
\* delay(1000) after WiFi.disconnect and in each poll of the connect loop
ConnectDelay == 1000
\* delay(100) between the LED toggles of the fatal blink loop
BlinkDelay == 100
\* width of uint16_t; also the limb base of the 32-bit values below
TwoTo16 == 65536
\* points of the series kept when one is appended (page.tsx, slice(-29))
Keep == 29
\* the proxy route's timer (SensorDashboard.tsx, setTimeout(..., 5000))
TimeoutMs == 5000

\* ------------------------------------------------------------------- bounds
\* number of loop() invocations explored
MaxTicks == 5
\* uptime up to which the fatal blink loop is followed
MaxBlinkTime == 2600
\* loop() calls followed near the rollover of millis()
DueTicks == 2
\* fetches the mock-API page starts
MaxPolls == 32
\* fetches the device page starts
DashPolls == 5
\* milliseconds by which the proxy route's waiting is followed
WaitStep == 1000
\* fetches of the device page awaiting their response at one time
MaxInFlight == 2

\* Elapsed milliseconds between the end of one loop() call and the next read
\* of millis() (time spent in Serial output, in the WiFi stack, ...).
Deltas == {250, 10000}
\* Longer waits before the first loop() call.
FirstDeltas == {28000}
\* One long advance of the clock, standing for a long period of operation:
\* it brings millis() close to its 32-bit rollover.
LongRun == [hi |-> TwoTo16 - 1, lo |-> TwoTo16 - 40000]
\* Elapsed milliseconds between two loop() calls that put a task just
\* short of, and exactly at, its interval after a sample of 250 ms.
DueDeltas == {100, 249, 250, 9749, 9750, 29749, 29750}
\* How long before the rollover of millis() the three tasks last ran.
DueBacks == {1, 300, 5000, 20000, 40000}
\* Milliseconds between loop()'s read of millis() and readLightSensor()'s
\* (request handling and the sensor's integration time).
ReadDelays == {250}
\* Seconds after WiFi.begin() at which the link comes up (31: not within the
\* connect window).
UpAfterChoices == {0, 31}
\* Values returned by tsl.getFullLuminosity() and tsl.calculateLux(), the
\* latter in thousandths of a lux.
Readings == { [full |-> 10 * TwoTo16 + 100, lux |-> 1234],
              [full |-> 5 * TwoTo16 + 50,   lux |-> 5678] }
\* ip parameters of a request to the proxy route ("": none)
IpParams == {"", "192.168.1.51", "10.0.0.7"}
\* status codes a device answers the proxy with
DeviceCodes == {200, 201, 404, 500, 503}
\* JSON bodies a device sends, and a body that is not JSON
DeviceJson == {"reading-a", "reading-b"}
DeviceBodies == DeviceJson \cup {"not-json"}
\* what fetch can resolve with
DeviceResponses ==
  [status : DeviceCodes, body : DeviceBodies, allowOrigin : BOOLEAN]
\* Paths a client asks for.
Paths == {"/", "/data"}
\* Results of http.GET() in testInternetConnection.
HttpCodes == {200, 503}

VARIABLES
  pc,                    \* source line about to be executed
  upTime,                \* true milliseconds since boot (millis() is upTime mod 2^32)
  led,                   \* level of ledPin
  currentMillis,         \* loop()'s local
  latestData,            \* struct SensorData latestData
  prevSensorMillis, previousWiFiMillis, wifiLogMillis,
  wifiConnected, wifiReconnectAttempts,
  linkUp,                \* WiFi.status() == WL_CONNECTED
  server,                \* WebServer server(80): started, routes, cors
  pending,               \* path of the client request waiting for handleClient
  response,              \* what the statement just executed sent to the client
  \* ---- history variables (observe, never steer)
  ticks,                 \* number of loop() invocations so far
  calls,                 \* functions invoked in the current setup()/loop() call, in order
  tickAt,                \* upTime at which currentMillis was read
  tslBegin,              \* what tsl.begin() returned: "found", "missing" ("unknown" before)
  probe,                 \* outcome of the testInternetConnection() call just made
  attempts,              \* connectToNYUWiFi()'s local, while its poll loop is unfolded
  sensorRunAt,           \* upTime of the tick of the sampler's previous run (0: boot)
  lastRead,              \* primitive values of the last completed readLightSensor, and
                         \* the raw value of the one before it
  sampled,               \* some readLightSensor has completed
  wifiRunAt, logRunAt,   \* upTime of the tick of the previous link check, link log (0: boot)
  downStreak,            \* consecutive link checks that found the link down and left it down
  streakBase,            \* wifiReconnectAttempts before the first check of the streak
  streakFromUp,          \* the supervisor believed itself connected at that first check
  justConnected,         \* the supervisor entered Connected and no handleClient ran since
  \* ---- the dashboard page (component Home of page.tsx)
  dataPoints,            \* useState: the series the chart shows
  isPaused,              \* useState
  bufferedPoints,        \* useState: readings held back while paused
  alert,                 \* useState: "none", "turbidity", "fetch-failed"
  status,                \* useState: "loading", "connected", "disconnected"
  lastUpdate,            \* useState: timestamp of the newest reading, 0 for null
  closure,               \* what the polling effect now installed closed over
  inFlight,              \* fetches not yet settled, each with what its callback closed over
  \* ---- history variables of the page
  polls,                 \* number of fetches started so far
  arrived,               \* device page: readings of the fetches that succeeded, in arrival order
  shownAtPause,          \* device page: dataPoints when Pause was last clicked
  \* ---- the proxy route (GET of the route handler, one request)
  routePc,               \* "idle", "fetching" (line 219), "body" (line 232), "returned"
  ip,                    \* searchParams.get('ip'): "" for null
  timeoutId,             \* "undefined", "armed", "fired"
  signal,                \* controller.signal.aborted
  res,                   \* what fetch resolved with
  reply,                 \* the NextResponse returned
  \* ---- history variables of the route
  cleared,               \* clearTimeout(timeoutId) has been called
  fetches,               \* calls of fetch made for this request
  waited                 \* milliseconds since fetch was called

vars == << pc, upTime, led, currentMillis, latestData, prevSensorMillis,
           previousWiFiMillis, wifiLogMillis, wifiConnected,
           wifiReconnectAttempts, linkUp, server, pending, response, ticks,
           calls, tickAt, tslBegin, probe, attempts, sensorRunAt, lastRead, sampled,
           wifiRunAt, logRunAt,
           downStreak, streakBase, streakFromUp, justConnected,
           dataPoints, isPaused, bufferedPoints, alert, status, lastUpdate,
           closure, inFlight, polls, arrived, shownAtPause,
           routePc, ip, timeoutId, signal, res, reply, cleared, fetches,
           waited >>

timers == << prevSensorMillis, previousWiFiMillis, wifiLogMillis >>
linkState == << wifiConnected, wifiReconnectAttempts >>
sensorHist == << sensorRunAt, lastRead, sampled >>
linkHist == << downStreak, streakBase, streakFromUp, justConnected >>
runHist == << wifiRunAt, logRunAt >>
page == << dataPoints, isPaused, bufferedPoints, alert, status, lastUpdate,
           closure, inFlight, polls, arrived, shownAtPause >>
route == << routePc, ip, timeoutId, signal, res, reply, cleared, fetches,
            waited >>
web == << page, route >>
firmware == << pc, upTime, led, currentMillis, latestData, timers, linkState,
               linkUp, server, pending, response, ticks, calls, tickAt,
               tslBegin, probe, attempts, sensorHist, linkHist, runHist >>

\* ------------------------------------------------------------------ helpers
\* Millisecond values are held as two 16-bit limbs, hi * 2^16 + lo, since an
\* unsigned long (32 bits on the ESP32) exceeds the integers of TLC.  True
\* uptime is the same pair with hi unbounded.
Ms(n) == [hi |-> n \div TwoTo16, lo |-> n % TwoTo16]

\* t + d, without wrap
Plus(t, d) ==
  [hi |-> t.hi + d.hi + ((t.lo + d.lo) \div TwoTo16),
   lo |-> (t.lo + d.lo) % TwoTo16]

\* a - b for a >= b, without wrap
Minus(a, b) ==
  [hi |-> a.hi - b.hi - (IF a.lo < b.lo THEN 1 ELSE 0),
   lo |-> (a.lo - b.lo + TwoTo16) % TwoTo16]

\* a >= b
Geq(a, b) == a.hi > b.hi \/ (a.hi = b.hi /\ a.lo >= b.lo)

\* millis(): the free-running 32-bit millisecond counter at uptime t
millis(t) == [hi |-> t.hi % TwoTo16, lo |-> t.lo]

\* a subtraction that does not wrap: 0 when the counter is below lastRun
Sub32Clamped(a, b) == IF Geq(a, b) THEN Minus(a, b) ELSE Ms(0)

\* unsigned long subtraction: (a - b) mod 2^32
Sub32(a, b) ==
  [hi |-> (a.hi - b.hi - (IF a.lo < b.lo THEN 1 ELSE 0) + 2 * TwoTo16) % TwoTo16,
   lo |-> (a.lo - b.lo + TwoTo16) % TwoTo16]

\* latestData left with whatever the memory held
UninitialisedData ==
  [visible_ir |-> 0, ir |-> 0, lux |-> 0, timestamp |-> Ms(1)]

\* the zero-initialised global latestData
DefaultData == [visible_ir |-> 0, ir |-> 0, lux |-> 0, timestamp |-> Ms(0)]

\* nothing was sent
NoResponse == [status |-> 0, path |-> "none", body |-> << >>, cors |-> FALSE]

\* the client asking for p found no listener on port 80: nothing is answered
Refused(p) == [status |-> 0, path |-> p, body |-> << >>, cors |-> FALSE]

\* String(lux, 2): two decimals, rounded; lux is held in thousandths, the
\* text in hundredths
FormatLux(m) == (m + 5) \div 10

\* handleData(): the JSON object built from latestData, as (key, value) pairs
handleData(d) ==
  [status |-> 200, path |-> "/data",
   body |-> << <<"visible_ir", d.visible_ir>>, <<"ir", d.ir>>,
               <<"lux", FormatLux(d.lux)>>, <<"timestamp", d.timestamp>> >>,
   cors |-> server.cors]

\* handleRoot(): the status page (text only)
handleRoot ==
  [status |-> 200, path |-> "/", body |-> << >>, cors |-> server.cors]

\* WebServer without a handler for the path
NotFound(p) ==
  [status |-> 404, path |-> p, body |-> << >>, cors |-> server.cors]

\* server.handleClient(): serve the waiting client, if any
HandleClientResult(p) ==
  IF ~server.started THEN Refused(p)
  ELSE IF p \notin server.routes THEN NotFound(p)
  ELSE IF p = "/data" THEN handleData(latestData)
  ELSE handleRoot

\* the poll loop of connectToNYUWiFi: the number of attempts made when the
\* link comes up upAfter seconds after WiFi.begin()
RECURSIVE ConnectLoop(_, _)
ConnectLoop(made, upAfter) ==
  IF ~(upAfter <= made) /\ made < MaxAttempts
  THEN ConnectLoop(made + 1, upAfter)
  ELSE made

\* connectToNYUWiFi(): attempts made, status on return, time spent
connectToNYUWiFi(upAfter) ==
  LET n == ConnectLoop(0, upAfter)
  IN [attempts |-> n, connected |-> (upAfter <= n),
      spent |-> ConnectDelay + n * ConnectDelay]

\* the link check placed before the sensor task
FlowLinkFirst(line, due) ==
  CASE line = "L102" -> "L105"
    [] line = "L105" -> "L114"
    [] line = "L114" -> (IF due THEN "L116" ELSE "L108")
    [] line = "L116" -> "L108"
    [] line = "L108" -> (IF due THEN "L110" ELSE "L120")
    [] line = "L110" -> "L120"
    [] line = "L120" -> (IF due THEN "L122" ELSE "L102")
    [] line = "L122" -> "L102"

\* The statement order of loop(): the line executed after `line`, where due
\* is the outcome of the due test on that line (if it holds one).
Flow(line, due) ==
  CASE line = "L102" -> "L105"
    [] line = "L105" -> "L108"
    [] line = "L108" -> (IF due THEN "L110" ELSE "L114")
    [] line = "L110" -> "L114"
    [] line = "L114" -> (IF due THEN "L116" ELSE "L120")
    [] line = "L116" -> "L120"
    [] line = "L120" -> (IF due THEN "L122" ELSE "L102")
    [] line = "L122" -> "L102"

\* no probe made in the current call
NoProbe == [ran |-> FALSE, linked |-> FALSE, code |-> 0]

\* what one call of testInternetConnection() can meet: the link up and the
\* GET answered with one of HttpCodes, or the link not connected
ProbeOutcomes ==
  {[ran |-> TRUE, linked |-> TRUE, code |-> c] : c \in HttpCodes}
    \cup {[ran |-> TRUE, linked |-> FALSE, code |-> 0]}

\* ------------------------------------------------- the dashboard pages
\* Array.prototype.slice(n) of JavaScript: a negative n counts from the end
JsSlice(s, n) ==
  LET start == IF n < 0
               THEN (IF Len(s) + n > 0 THEN Len(s) + n ELSE 0)
               ELSE (IF n < Len(s) THEN n ELSE Len(s))
  IN SubSeq(s, start + 1, Len(s))

\* Home just rendered for the first time (useState initial values, lines
\* 16-19 and 228-235), no effect run yet
PageMounted ==
  /\ dataPoints = << >>
  /\ isPaused = FALSE
  /\ bufferedPoints = << >>
  /\ alert = "none"
  /\ status = "loading"
  /\ lastUpdate = 0
  /\ closure = [isPaused |-> FALSE, empty |-> TRUE]
  /\ inFlight = {}
  /\ polls = 0
  /\ arrived = << >>
  /\ shownAtPause = << >>

\* what fetch has resolved with before it resolves
NoRes == [status |-> 0, body |-> "none", allowOrigin |-> FALSE]

\* nothing returned yet
NoReply == [status |-> 0, body |-> "none", allowOrigin |-> FALSE]

\* the route handler not yet called
RouteIdle ==
  /\ routePc = "idle"
  /\ ip = ""
  /\ timeoutId = "undefined"
  /\ signal = FALSE
  /\ res = NoRes
  /\ reply = NoReply
  /\ cleared = FALSE
  /\ fetches = 0
  /\ waited = 0

\* ---------------------------------------------------------------- Init
PowerOn ==
  /\ pc = "setup"
  /\ upTime = Ms(0)
  /\ led = FALSE
  /\ currentMillis = Ms(0)
  /\ latestData = DefaultData
  /\ prevSensorMillis = Ms(0)
  /\ previousWiFiMillis = Ms(0)
  /\ wifiLogMillis = Ms(0)
  /\ wifiConnected = FALSE
  /\ wifiReconnectAttempts = 0
  /\ linkUp = FALSE
  /\ server = [started |-> FALSE, routes |-> {}, cors |-> FALSE]
  /\ pending = "none"
  /\ response = NoResponse
  /\ ticks = 0
  /\ calls = << >>
  /\ tickAt = Ms(0)
  /\ sensorRunAt = Ms(0)
  /\ tslBegin = "unknown"
  /\ probe = NoProbe
  /\ attempts = 0
  /\ lastRead = [full |-> 0, lux |-> 0, at |-> Ms(0), before |-> 0]
  /\ sampled = FALSE
  /\ wifiRunAt = Ms(0)
  /\ logRunAt = Ms(0)
  /\ downStreak = 0
  /\ streakBase = 0
  /\ streakFromUp = FALSE
  /\ justConnected = FALSE

\* the firmware at power-on, the page just mounted
Init == PowerOn /\ PageMounted /\ RouteIdle

\* a fetch started now by the installed callback; the reading it will bring
\* is identified by its timestamp, here the number of the fetch
NewFetch == [id |-> polls + 1, paused |-> closure.isPaused,
             empty |-> closure.empty]

\* ---- the proxy route (SensorDashboard.tsx, lines 205-251)
\* Response.ok
Ok(code) == code >= 200 /\ code <= 299

\* a catch block that answers 502 whatever the error
RouteCatchFlat(errName) ==
  /\ cleared' = (IF timeoutId # "undefined" THEN TRUE ELSE cleared)
  /\ reply' = [status |-> 502, body |-> "failed", allowOrigin |-> FALSE]
  /\ routePc' = "returned"

\* lines 243-250: the catch block, for an error of name errName
RouteCatch(errName) ==
  /\ cleared' = (IF timeoutId # "undefined" THEN TRUE ELSE cleared)
  /\ reply' = (IF errName = "AbortError"
               THEN [status |-> 504, body |-> "timeout", allowOrigin |-> FALSE]
               ELSE [status |-> 502, body |-> "failed", allowOrigin |-> FALSE])
  /\ routePc' = "returned"

\* lines 205-227: GET called with the ip parameter q; without it 400 is
\* returned at once, with it the timer is armed and fetch called
RouteGet ==
  /\ routePc = "idle"
  /\ \E q \in IpParams :
       /\ ip' = q
       /\ IF q = ""
          THEN /\ reply' = [status |-> 400, body |-> "missing-ip",
                            allowOrigin |-> FALSE]
               /\ routePc' = "returned"
               /\ UNCHANGED << timeoutId, fetches >>
          ELSE /\ timeoutId' = "armed"
               /\ fetches' = fetches + 1
               /\ routePc' = "fetching"
               /\ UNCHANGED reply
  /\ UNCHANGED << signal, res, cleared, waited, page, firmware >>

\* time passes while fetch is pending, up to the time of the timer
RouteWait ==
  /\ routePc = "fetching"
  /\ waited < TimeoutMs
  /\ waited' = waited + WaitStep
  /\ UNCHANGED << routePc, ip, timeoutId, signal, res, reply, cleared,
                  fetches, page, firmware >>

\* line 219: the timer fires and aborts the fetch, which rejects with an
\* AbortError (lines 243-247)
RouteTimeout ==
  /\ routePc = "fetching"
  /\ timeoutId = "armed"
  /\ waited >= TimeoutMs
  /\ timeoutId' = "fired"
  /\ signal' = TRUE
  /\ RouteCatch("AbortError")
  /\ UNCHANGED << ip, res, fetches, waited, page, firmware >>

\* fetch rejects for another reason (no route to the device, connection
\* refused or reset): lines 243-249
RouteFetchFails ==
  /\ routePc = "fetching"
  /\ waited < TimeoutMs
  /\ RouteCatch("TypeError")
  /\ UNCHANGED << ip, timeoutId, signal, res, fetches, waited, page,
                  firmware >>

\* lines 219-231: the device answers before the timer: the timer is cleared,
\* a non-OK status is returned as it is
RouteHeaders ==
  /\ routePc = "fetching"
  /\ waited < TimeoutMs
  /\ \E r \in DeviceResponses :
       /\ res' = r
       /\ cleared' = TRUE
       /\ IF ~Ok(r.status)
          THEN /\ reply' = [status |-> r.status, body |-> "device-status",
                            allowOrigin |-> FALSE]
               /\ routePc' = "returned"
          ELSE /\ routePc' = "body"
               /\ UNCHANGED reply
  /\ UNCHANGED << ip, timeoutId, signal, fetches, waited, page, firmware >>

\* lines 232-242: res.json() parses the body and 200 is returned with it
\* and the device's Access-Control-Allow-Origin; a body that is not JSON
\* throws a SyntaxError (lines 243-249)
RouteBody ==
  /\ routePc = "body"
  /\ IF res.body \in DeviceJson
     THEN /\ reply' = [status |-> 200, body |-> res.body,
                       allowOrigin |-> res.allowOrigin]
          /\ routePc' = "returned"
          /\ UNCHANGED cleared
     ELSE RouteCatch("SyntaxError")
  /\ UNCHANGED << ip, timeoutId, signal, res, fetches, waited, page,
                  firmware >>

RouteNext ==
  \/ RouteGet
  \/ RouteWait
  \/ RouteTimeout
  \/ RouteFetchFails
  \/ RouteHeaders
  \/ RouteBody

RouteSpec == Init /\ [][RouteNext]_vars

\* ---- the device page (lines 227-290)
\* Home mounted and its polling effect run once (lines 243-247, 277): the
\* first fetchData() is under way
DashMounted ==
  /\ dataPoints = << >>
  /\ isPaused = FALSE
  /\ bufferedPoints = << >>
  /\ alert = "none"
  /\ status = "loading"
  /\ lastUpdate = 0
  /\ closure = [isPaused |-> FALSE, empty |-> TRUE]
  /\ inFlight = {[id |-> 1, paused |-> FALSE, empty |-> TRUE]}
  /\ polls = 1
  /\ arrived = << >>
  /\ shownAtPause = << >>

DashInit == PowerOn /\ DashMounted /\ RouteIdle

\* line 278: setInterval(fetchData, 1000) fires; line 249 starts the fetch
DashPoll ==
  /\ polls < DashPolls
  /\ Cardinality(inFlight) < MaxInFlight
  /\ inFlight' = inFlight \cup {NewFetch}
  /\ polls' = polls + 1
  /\ UNCHANGED << dataPoints, isPaused, bufferedPoints, alert, status,
                  lastUpdate, closure, arrived, shownAtPause, firmware, route >>

\* lines 250-270: fetch f answered OK and parsed; low is json.visible_ir <
\* THRESHOLD
DashResponse ==
  \E f \in inFlight, low \in BOOLEAN :
    /\ IF f.paused
       THEN /\ bufferedPoints' = Append(bufferedPoints, f.id)
            /\ UNCHANGED dataPoints
       ELSE /\ dataPoints' = Append(dataPoints, f.id)
            /\ UNCHANGED bufferedPoints
    /\ status' = "connected"
    /\ lastUpdate' = f.id
    /\ alert' = (IF low THEN "turbidity" ELSE "none")
    /\ arrived' = Append(arrived, f.id)
    /\ inFlight' = inFlight \ {f}
    /\ UNCHANGED << isPaused, closure, polls, shownAtPause, firmware, route >>

\* lines 251 and 271-274: fetch f rejected, or answered with a non-OK status
DashFailure ==
  \E f \in inFlight :
    /\ status' = (IF f.empty THEN "loading" ELSE "disconnected")
    /\ alert' = "fetch-failed"
    /\ inFlight' = inFlight \ {f}
    /\ UNCHANGED << dataPoints, isPaused, bufferedPoints, lastUpdate, closure,
                    polls, arrived, shownAtPause, firmware, route >>

\* the polling effect run again after isPaused changed to p with the series
\* shown being shown (lines 243-247, 277): a new closure, and fetchData()
\* called at once
EffectRerun(p, shown) ==
  /\ closure' = [isPaused |-> p, empty |-> (shown = << >>)]
  /\ status' = "loading"
  /\ alert' = "none"
  /\ lastUpdate' = 0
  /\ inFlight' = inFlight \cup
                   {[id |-> polls + 1, paused |-> p, empty |-> (shown = << >>)]}
  /\ polls' = polls + 1

\* line 284 (the button is disabled while paused, line 476), then the effect
DashPause ==
  /\ ~isPaused
  /\ polls < DashPolls
  /\ Cardinality(inFlight) < MaxInFlight
  /\ isPaused' = TRUE
  /\ shownAtPause' = dataPoints
  /\ EffectRerun(TRUE, dataPoints)
  /\ UNCHANGED << dataPoints, bufferedPoints, arrived, firmware, route >>

\* lines 286-290 (the button is disabled unless paused, line 491), then the
\* effect
DashResume ==
  /\ isPaused
  /\ polls < DashPolls
  /\ Cardinality(inFlight) < MaxInFlight
  /\ isPaused' = FALSE
  /\ dataPoints' = dataPoints \o bufferedPoints
  /\ bufferedPoints' = << >>
  /\ EffectRerun(FALSE, dataPoints \o bufferedPoints)
  /\ UNCHANGED << arrived, shownAtPause, firmware, route >>

DashNext ==
  \/ DashPoll
  \/ DashResponse
  \/ DashFailure
  \/ DashPause
  \/ DashResume

DashSpec == DashInit /\ [][DashNext]_vars

\* ---- the mock-API page (lines 15-66)
\* the setInterval callback of lines 29-30 fires: fetch('/api/sensor').  The
\* route answers from memory, so the fetch of the previous period, 2 s
\* earlier, has settled.
MockPoll ==
  /\ polls < MaxPolls
  /\ inFlight = {}
  /\ inFlight' = inFlight \cup {NewFetch}
  /\ polls' = polls + 1
  /\ UNCHANGED << dataPoints, isPaused, bufferedPoints, alert, status,
                  lastUpdate, closure, arrived, shownAtPause, firmware, route >>

\* a DataPoint of the mock-API page; its time and value play no part in
\* what the page does with it
MockPoint == "point"

\* lines 31-52: the response of fetch f is parsed; low is data.value <
\* THRESHOLD
MockResponse ==
  \E f \in inFlight, low \in BOOLEAN :
    /\ IF f.paused
       THEN /\ bufferedPoints' = Append(bufferedPoints, MockPoint)
            /\ UNCHANGED dataPoints
       ELSE /\ dataPoints' = JsSlice(dataPoints, -Keep) \o << MockPoint >>
            /\ UNCHANGED bufferedPoints
    /\ alert' = (IF low THEN "turbidity" ELSE "none")
    /\ inFlight' = inFlight \ {f}
    /\ UNCHANGED << isPaused, status, lastUpdate, closure, polls, arrived,
                    shownAtPause, firmware, route >>

\* lines 58-60 and the effect of lines 28-56 run again for the new isPaused
MockPause ==
  /\ ~isPaused
  /\ isPaused' = TRUE
  /\ closure' = [closure EXCEPT !.isPaused = TRUE]
  /\ UNCHANGED << dataPoints, bufferedPoints, alert, status, lastUpdate,
                  inFlight, polls, arrived, shownAtPause, firmware, route >>

\* lines 62-66 and the effect run again
MockResume ==
  /\ isPaused
  /\ isPaused' = FALSE
  /\ closure' = [closure EXCEPT !.isPaused = FALSE]
  /\ dataPoints' = JsSlice(dataPoints, -Keep + Len(bufferedPoints))
                     \o bufferedPoints
  /\ bufferedPoints' = << >>
  /\ UNCHANGED << alert, status, lastUpdate, inFlight, polls, arrived,
                  shownAtPause, firmware, route >>

MockNext == MockPoll \/ MockResponse \/ MockPause \/ MockResume

MockSpec == Init /\ [][MockNext]_vars


\* ---------------------------------------------------------------- setup()
\* the blink loop left out: setup() returns and loop() starts
SetupSensorMissingReturns ==
  /\ pc = "setup"
  /\ pc' = "L102"
  /\ upTime' = Plus(upTime, Ms(BootDelay))
  /\ led' = TRUE
  /\ calls' = << "tsl.begin" >>
  /\ tslBegin' = "missing"
  /\ UNCHANGED << currentMillis, latestData, timers, linkState, linkUp,
                  server, pending, response, ticks, tickAt, sensorHist,
                  linkHist, probe, attempts, runHist, web >>

\* tsl.begin() failed: the blink loop is entered and never left
SetupSensorMissing ==
  /\ pc = "setup"
  /\ pc' = "blink"
  /\ upTime' = Plus(upTime, Ms(BootDelay))
  /\ led' = TRUE
  /\ calls' = << "tsl.begin" >>
  /\ tslBegin' = "missing"
  /\ UNCHANGED << currentMillis, latestData, timers, linkState, linkUp,
                  server, pending, response, ticks, tickAt, sensorHist,
                  linkHist, probe, attempts, runHist, web >>

\* while (1) { HIGH; delay(100); LOW; delay(100); }
Blink ==
  /\ pc = "blink"
  /\ ~Geq(upTime, Ms(MaxBlinkTime))
  /\ led' = ~led
  /\ upTime' = Plus(upTime, Ms(BlinkDelay))
  /\ UNCHANGED << pc, currentMillis, latestData, timers, linkState, linkUp,
                  server, pending, response, ticks, calls, tickAt, tslBegin, probe, attempts,
                  sensorHist, linkHist, runHist, web >>

\* lines 44-78: tsl.begin() succeeded; one connect sequence, and if the link
\* is up on return the flag is set and the connection details are printed
SetupSensorFound ==
  /\ pc = "setup"
  /\ \E upAfter \in UpAfterChoices :
       LET c == connectToNYUWiFi(upAfter) IN
         /\ upTime' = Plus(upTime, Ms(BootDelay + c.spent))
         /\ linkUp' = c.connected
         /\ IF c.connected
              THEN /\ wifiConnected' = TRUE
                   /\ calls' = << "tsl.begin", "connectToNYUWiFi",
                                  "printConnectionDetails" >>
                   /\ pc' = "L79"
              ELSE /\ UNCHANGED wifiConnected
                   /\ calls' = << "tsl.begin", "connectToNYUWiFi" >>
                   /\ pc' = "L102"
  /\ led' = TRUE
  /\ tslBegin' = "found"
  /\ UNCHANGED << currentMillis, latestData, timers, wifiReconnectAttempts,
                  server, pending, response, ticks, tickAt, sensorHist,
                  linkHist, probe, attempts, runHist, web >>

\* a probe that escalates its failure: a result other than 200 clears the flag
testInternetConnectionEscalates ==
  /\ pc = "L79"
  /\ \E o \in ProbeOutcomes :
       /\ probe' = o
       /\ linkUp' = o.linked
       /\ wifiConnected' = (o.linked /\ o.code = 200)
  /\ calls' = Append(calls, "testInternetConnection")
  /\ pc' = "L82"
  /\ UNCHANGED << upTime, led, currentMillis, latestData, timers,
                  wifiReconnectAttempts, server, pending, response, ticks,
                  tickAt, tslBegin, sensorHist, linkHist, attempts, runHist, web >>

\* line 79: testInternetConnection(); it reads WiFi.status() (the link may
\* have dropped since line 76), makes one HTTP GET if the link is up, and
\* prints the outcome
testInternetConnection ==
  /\ pc = "L79"
  /\ \E o \in ProbeOutcomes :
       /\ probe' = o
       /\ linkUp' = o.linked
  /\ calls' = Append(calls, "testInternetConnection")
  /\ pc' = "L82"
  /\ UNCHANGED << upTime, led, currentMillis, latestData, timers, linkState,
                  server, pending, response, ticks, tickAt, tslBegin,
                  sensorHist, linkHist, attempts, runHist, web >>

\* lines 82-86: both routes registered, CORS enabled, server.begin()
SetupServer ==
  /\ pc = "L82"
  /\ server' = [started |-> TRUE, routes |-> {"/", "/data"}, cors |-> TRUE]
  /\ calls' = Append(calls, "server.begin")
  /\ probe' = NoProbe
  /\ pc' = "L102"
  /\ UNCHANGED << upTime, led, currentMillis, latestData, timers, linkState,
                  linkUp, pending, response, ticks, tickAt, tslBegin,
                  sensorHist, linkHist, attempts, runHist, web >>

\* ---------------------------------------------------------------- loop()
\* line 102: unsigned long currentMillis = millis(); ds holds the times that
\* may have passed since the previous call returned
Tick(ds) ==
  /\ pc = "L102"
  /\ ticks < MaxTicks
  /\ \E d \in ds :
       /\ upTime' = Plus(upTime, d)
       /\ currentMillis' = millis(Plus(upTime, d))
       /\ tickAt' = Plus(upTime, d)
  /\ ticks' = ticks + 1
  /\ calls' = << >>
  /\ pc' = Flow("L102", FALSE)
  /\ UNCHANGED << led, latestData, timers, linkState, linkUp, server,
                  pending, response, tslBegin, probe, attempts, sensorHist, linkHist, runHist, web >>

\* line 102, after one of Deltas (before the first call also one of
\* FirstDeltas, or the long run)
LoopBegin ==
  Tick({Ms(n) : n \in Deltas}
         \cup (IF ticks = 0 THEN {Ms(n) : n \in FirstDeltas} \cup {LongRun}
                            ELSE {}))

\* line 102, after one of DueDeltas
TickWide == Tick({Ms(n) : n \in DueDeltas})

\* line 105: server.handleClient();
HandleClient ==
  /\ pc = "L105"
  /\ calls' = Append(calls, "handleClient")
  /\ IF pending = "none"
       THEN UNCHANGED << pending, response >>
       ELSE /\ response' = HandleClientResult(pending)
            /\ pending' = "none"
  /\ justConnected' = FALSE
  /\ pc' = Flow("L105", FALSE)
  /\ UNCHANGED << upTime, led, currentMillis, latestData, timers, linkState,
                  linkUp, server, ticks, tickAt, tslBegin, probe, attempts, sensorHist, downStreak,
                  streakBase, streakFromUp, runHist, web >>

\* the due test written with > for >=
SensorIsDueStrict ==
  /\ Geq(Sub32(currentMillis, prevSensorMillis), Ms(sensorInterval))
  /\ Sub32(currentMillis, prevSensorMillis) # Ms(sensorInterval)

\* the due test of the sensor task
SensorIsDue == Geq(Sub32(currentMillis, prevSensorMillis), Ms(sensorInterval))

\* catch-up scheduling: the timer advanced by one interval
SensorDueCatchUp ==
  /\ pc = "L108"
  /\ IF SensorIsDue
       THEN prevSensorMillis' = millis(Plus(prevSensorMillis, Ms(sensorInterval)))
       ELSE UNCHANGED prevSensorMillis
  /\ pc' = Flow("L108", SensorIsDue)
  /\ response' = NoResponse
  /\ UNCHANGED << upTime, led, currentMillis, latestData, previousWiFiMillis,
                  wifiLogMillis, linkState, linkUp, server, pending,
                  ticks, calls, tickAt, tslBegin, probe, attempts, sensorHist, linkHist, runHist, web >>

\* lines 108-109: the due test and the timer reset (by now the response of
\* line 105 has left the device)
SensorDue ==
  /\ pc = "L108"
  /\ IF SensorIsDue
       THEN prevSensorMillis' = currentMillis
       ELSE UNCHANGED prevSensorMillis
  /\ pc' = Flow("L108", SensorIsDue)
  /\ response' = NoResponse
  /\ UNCHANGED << upTime, led, currentMillis, latestData, previousWiFiMillis,
                  wifiLogMillis, linkState, linkUp, server, pending,
                  ticks, calls, tickAt, tslBegin, probe, attempts, sensorHist, linkHist, runHist, web >>

\* only the two raw channels stored, lux and timestamp left as they were
readLightSensorChannelsOnly(r, now) ==
  [latestData EXCEPT !.visible_ir = r.full % TwoTo16,
                     !.ir = r.full \div TwoTo16]

\* the two channels stored under each other's name
readLightSensorSwapped(r, now) ==
  [visible_ir |-> r.full \div TwoTo16,
   ir         |-> r.full % TwoTo16,
   lux        |-> r.lux,
   timestamp  |-> now]

\* readLightSensor(): the snapshot written from one primitive reading taken
\* at millisecond counter value now
readLightSensor(r, now) ==
  [visible_ir |-> r.full % TwoTo16,
   ir         |-> r.full \div TwoTo16,
   lux        |-> r.lux,
   timestamp  |-> now]

\* the snapshot stamped with loop()'s currentMillis instead of a fresh millis()
SensorBodyTickTime ==
  /\ pc = "L110"
  /\ \E r \in Readings, d \in ReadDelays :
       /\ upTime' = Plus(upTime, Ms(d))
       /\ latestData' = readLightSensor(r, currentMillis)
       /\ lastRead' = [full |-> r.full, lux |-> r.lux,
                        at |-> Plus(upTime, Ms(d)), before |-> lastRead.full]
  /\ sampled' = TRUE
  /\ sensorRunAt' = tickAt
  /\ calls' = Append(calls, "readLightSensor")
  /\ pc' = Flow("L110", FALSE)
  /\ UNCHANGED << led, currentMillis, timers, linkState, linkUp, server,
                  pending, response, ticks, tickAt, tslBegin, probe, attempts,
                  linkHist, runHist, web >>

\* line 110: readLightSensor(); with the primitives' values drawn from R
Sample(R) ==
  /\ pc = "L110"
  /\ \E r \in R, d \in ReadDelays :
       /\ upTime' = Plus(upTime, Ms(d))
       /\ latestData' = readLightSensor(r, millis(Plus(upTime, Ms(d))))
       /\ lastRead' = [full |-> r.full, lux |-> r.lux,
                        at |-> Plus(upTime, Ms(d)), before |-> lastRead.full]
  /\ sampled' = TRUE
  /\ sensorRunAt' = tickAt
  /\ calls' = Append(calls, "readLightSensor")
  /\ pc' = Flow("L110", FALSE)
  /\ UNCHANGED << led, currentMillis, timers, linkState, linkUp, server,
                  pending, response, ticks, tickAt, tslBegin, probe, attempts, linkHist, runHist, web >>

\* line 110 with the primitives' values drawn from Readings
SensorBody == Sample(Readings)

\* Composite values of tsl.getFullLuminosity() around the 16-bit boundaries
\* of both channels, up to the largest integer TLC holds (2^31 - 1).
WideReadings ==
  { [full |-> h * TwoTo16 + l, lux |-> 1234] :
      h \in {0, 1, 5, 255, 256, 32767}, l \in {0, 1, 255, 256, 65535} }

\* line 110 with the primitives' values drawn from WideReadings
SampleWide == Sample(WideReadings)

\* the due test of the link check (wifiCheckInterval is a long, converted to
\* unsigned long by the comparison)
WiFiIsDue == Geq(Sub32(currentMillis, previousWiFiMillis), Ms(wifiCheckInterval))

\* the timer reset placed outside the if: written on every tick
WiFiDueAlways ==
  /\ pc = "L114"
  /\ previousWiFiMillis' = currentMillis
  /\ pc' = Flow("L114", WiFiIsDue)
  /\ UNCHANGED << upTime, led, currentMillis, latestData, prevSensorMillis,
                  wifiLogMillis, linkState, linkUp, server, pending,
                  response, ticks, calls, tickAt, tslBegin, probe, attempts,
                  sensorHist, linkHist, runHist, web >>

\* lines 114-115: the due test and the timer reset
WiFiDue ==
  /\ pc = "L114"
  /\ IF WiFiIsDue
       THEN previousWiFiMillis' = currentMillis
       ELSE UNCHANGED previousWiFiMillis
  /\ pc' = Flow("L114", WiFiIsDue)
  /\ UNCHANGED << upTime, led, currentMillis, latestData, prevSensorMillis,
                  wifiLogMillis, linkState, linkUp, server, pending,
                  response, ticks, calls, tickAt, tslBegin, probe, attempts, sensorHist, linkHist, runHist, web >>

\* History of one link check: failed tells that it found the link down and
\* left it down.
StreakAfterCheck(failed) ==
  IF failed
    THEN /\ downStreak' = downStreak + 1
         /\ streakBase' = (IF downStreak = 0 THEN wifiReconnectAttempts
                                             ELSE streakBase)
         /\ streakFromUp' = (IF downStreak = 0 THEN wifiConnected
                                               ELSE streakFromUp)
    ELSE /\ downStreak' = 0
         /\ streakBase' = 0
         /\ streakFromUp' = FALSE

\* the counter bumped on every check that finds the link down
MonitorLinkDownPerProbe ==
  \E upAfter \in UpAfterChoices :
    LET c == connectToNYUWiFi(upAfter)
        lost == wifiConnected
        flag == IF lost THEN FALSE ELSE wifiConnected
        reconnected == c.connected /\ ~flag
    IN
      /\ wifiReconnectAttempts' = wifiReconnectAttempts + 1
      /\ upTime' = Plus(upTime, Ms(c.spent))
      /\ linkUp' = c.connected
      /\ wifiConnected' = (IF reconnected THEN TRUE ELSE flag)
      /\ server' = (IF reconnected THEN [server EXCEPT !.started = TRUE]
                                   ELSE server)
      /\ calls' = calls \o << "monitorWiFiConnection", "connectToNYUWiFi" >>
                        \o (IF reconnected THEN << "server.begin" >> ELSE << >>)
      /\ justConnected' = (IF reconnected THEN TRUE ELSE justConnected)
      /\ StreakAfterCheck(~c.connected)

\* the flag set after the connect sequence without testing its result
MonitorLinkDownOptimistic ==
  \E upAfter \in UpAfterChoices :
    LET c == connectToNYUWiFi(upAfter)
        lost == wifiConnected
    IN
      /\ wifiReconnectAttempts' = wifiReconnectAttempts + (IF lost THEN 1 ELSE 0)
      /\ upTime' = Plus(upTime, Ms(c.spent))
      /\ linkUp' = c.connected
      /\ wifiConnected' = TRUE
      /\ server' = [server EXCEPT !.started = TRUE]
      /\ calls' = calls \o << "monitorWiFiConnection", "connectToNYUWiFi",
                               "server.begin" >>
      /\ justConnected' = TRUE
      /\ StreakAfterCheck(~c.connected)

\* monitorWiFiConnection(), link found down (lines 222-235): count the drop if
\* the supervisor believed itself connected, run one connect sequence, restart
\* the server if it succeeded
MonitorLinkDown ==
  \E upAfter \in UpAfterChoices :
    LET c == connectToNYUWiFi(upAfter)
        lost == wifiConnected
        flag == IF lost THEN FALSE ELSE wifiConnected
        reconnected == c.connected /\ ~flag
    IN
      /\ wifiReconnectAttempts' = wifiReconnectAttempts + (IF lost THEN 1 ELSE 0)
      /\ upTime' = Plus(upTime, Ms(c.spent))
      /\ linkUp' = c.connected
      /\ wifiConnected' = (IF reconnected THEN TRUE ELSE flag)
      /\ server' = (IF reconnected THEN [server EXCEPT !.started = TRUE]
                                   ELSE server)
      /\ calls' = calls \o << "monitorWiFiConnection", "connectToNYUWiFi" >>
                        \o (IF reconnected THEN << "server.begin" >> ELSE << >>)
      /\ justConnected' = (IF reconnected THEN TRUE ELSE justConnected)
      /\ StreakAfterCheck(~c.connected)

\* the link found up, with the flag left as it was
MonitorLinkUpSilent ==
  /\ wifiConnected' = wifiConnected
  /\ calls' = Append(calls, "monitorWiFiConnection")
  /\ justConnected' = justConnected
  /\ StreakAfterCheck(FALSE)
  /\ UNCHANGED << wifiReconnectAttempts, upTime, linkUp, server >>

\* monitorWiFiConnection(), link found up (lines 236-244): note the restored
\* connection
MonitorLinkUp ==
  /\ wifiConnected' = (IF ~wifiConnected THEN TRUE ELSE wifiConnected)
  /\ calls' = Append(calls, "monitorWiFiConnection")
  /\ justConnected' = (IF ~wifiConnected THEN TRUE ELSE justConnected)
  /\ StreakAfterCheck(FALSE)
  /\ UNCHANGED << wifiReconnectAttempts, upTime, linkUp, server >>

\* monitorWiFiConnection()
monitorWiFiConnection ==
  IF ~linkUp THEN MonitorLinkDown ELSE MonitorLinkUp

\* the link-check timer stamped again with a fresh millis() once the check
\* has returned
WiFiBodyRestamps ==
  /\ pc = "L116"
  /\ monitorWiFiConnection
  /\ wifiRunAt' = tickAt
  /\ previousWiFiMillis' = millis(upTime')
  /\ pc' = Flow("L116", FALSE)
  /\ UNCHANGED << led, currentMillis, latestData, prevSensorMillis,
                  wifiLogMillis, pending, response, ticks, tickAt, tslBegin,
                  probe, attempts, sensorHist, logRunAt, web >>

\* line 116: monitorWiFiConnection();
WiFiBody ==
  /\ pc = "L116"
  /\ monitorWiFiConnection
  /\ wifiRunAt' = tickAt
  /\ pc' = Flow("L116", FALSE)
  /\ UNCHANGED << led, currentMillis, latestData, timers, pending, response,
                  ticks, tickAt, tslBegin, probe, attempts, sensorHist, logRunAt, web >>

\* the due test of the detailed link log
LogIsDue == Geq(Sub32(currentMillis, wifiLogMillis), Ms(wifiLogInterval))

\* lines 120-121: the due test and the timer reset
LogDue ==
  /\ pc = "L120"
  /\ IF LogIsDue
       THEN wifiLogMillis' = currentMillis
       ELSE UNCHANGED wifiLogMillis
  /\ pc' = Flow("L120", LogIsDue)
  /\ UNCHANGED << upTime, led, currentMillis, latestData, prevSensorMillis,
                  previousWiFiMillis, linkState, linkUp, server, pending,
                  response, ticks, calls, tickAt, tslBegin, probe, attempts, sensorHist, linkHist, runHist, web >>

\* a log that counts a reconnect attempt whenever it prints Disconnected
LogBodyCounts ==
  /\ pc = "L122"
  /\ wifiReconnectAttempts' = wifiReconnectAttempts + (IF linkUp THEN 0 ELSE 1)
  /\ calls' = Append(calls, "logDetailedWiFiStatus")
  /\ logRunAt' = tickAt
  /\ UNCHANGED web
  /\ pc' = Flow("L122", FALSE)
  /\ UNCHANGED << upTime, led, currentMillis, latestData, timers,
                  wifiConnected, linkUp, server, pending, response,
                  ticks, tickAt, tslBegin, probe, attempts, sensorHist,
                  linkHist, wifiRunAt >>

\* line 122: logDetailedWiFiStatus(); (Serial output only)
LogBody ==
  /\ pc = "L122"
  /\ calls' = Append(calls, "logDetailedWiFiStatus")
  /\ logRunAt' = tickAt
  /\ UNCHANGED web
  /\ pc' = Flow("L122", FALSE)
  /\ UNCHANGED << upTime, led, currentMillis, latestData, timers, linkState,
                  linkUp, server, pending, response, ticks, tickAt, tslBegin, probe, attempts,
                  sensorHist, linkHist, wifiRunAt >>

\* ------------------------------------------------------------ environment
\* The environment is observed by loop() only through WiFi.status() and
\* handleClient(), so its steps are taken between two loop() calls, and,
\* where the poll loop of connectToNYUWiFi is unfolded, between two polls.
LoopPcs == {"L102", "C208"}

\* the access point drops the station
LinkDrop ==
  /\ pc \in LoopPcs
  /\ linkUp
  /\ linkUp' = FALSE
  /\ UNCHANGED << pc, upTime, led, currentMillis, latestData, timers,
                  linkState, server, pending, response, ticks, calls, tickAt, tslBegin, probe, attempts,
                  sensorHist, linkHist, runHist, web >>

\* the WiFi stack re-associates on its own
LinkRestore ==
  /\ pc \in LoopPcs
  /\ ~linkUp
  /\ linkUp' = TRUE
  /\ UNCHANGED << pc, upTime, led, currentMillis, latestData, timers,
                  linkState, server, pending, response, ticks, calls, tickAt, tslBegin, probe, attempts,
                  sensorHist, linkHist, runHist, web >>

\* a client on the network sends GET p
ClientRequest ==
  /\ pc \in LoopPcs
  /\ linkUp
  /\ pending = "none"
  /\ \E p \in Paths : pending' = p
  /\ UNCHANGED << pc, upTime, led, currentMillis, latestData, timers,
                  linkState, linkUp, server, response, ticks, calls, tickAt, tslBegin, probe, attempts,
                  sensorHist, linkHist, runHist, web >>

Next ==
  \/ SetupSensorMissing
  \/ Blink
  \/ SetupSensorFound
  \/ testInternetConnection
  \/ SetupServer
  \/ LoopBegin
  \/ HandleClient
  \/ SensorDue
  \/ SensorBody
  \/ WiFiDue
  \/ WiFiBody
  \/ LogDue
  \/ LogBody
  \/ LinkDrop
  \/ LinkRestore
  \/ ClientRequest

Spec == Init /\ [][Next]_vars

\* ------------------------------------------ the connect sequence, unfolded
\* One link check that finds the link down, statement by statement: the
\* check of the first loop() call, 10 s after a boot that connected and then
\* lost the link (booted) or 10 s after a boot whose connect sequence failed,
\* the sampler having just stored reading r.
ConnectInit ==
  \E booted \in BOOLEAN, r \in Readings, d \in ReadDelays :
    LET now == IF booted
                 THEN Ms(BootDelay + ConnectDelay + wifiCheckInterval)
                 ELSE Ms(BootDelay + ConnectDelay + MaxAttempts * ConnectDelay
                           + wifiCheckInterval)
        done == Plus(now, Ms(d))
    IN
      /\ pc = "L116"
      /\ upTime = done
      /\ led = TRUE
      /\ currentMillis = now
      /\ latestData = readLightSensor(r, done)
      /\ prevSensorMillis = now
      /\ previousWiFiMillis = now
      /\ wifiLogMillis = Ms(0)
      /\ wifiConnected = booted
      /\ wifiReconnectAttempts = 0
      /\ linkUp = FALSE
      /\ server = (IF booted
                     THEN [started |-> TRUE, routes |-> {"/", "/data"},
                           cors |-> TRUE]
                     ELSE [started |-> FALSE, routes |-> {}, cors |-> FALSE])
      /\ pending = "none"
      /\ response = NoResponse
      /\ ticks = 1
      /\ calls = << "handleClient", "readLightSensor" >>
      /\ tickAt = now
      /\ tslBegin = "found"
      /\ probe = NoProbe
      /\ attempts = 0
      /\ sensorRunAt = now
      /\ lastRead = [full |-> r.full, lux |-> r.lux, at |-> done, before |-> 0]
      /\ sampled = TRUE
      /\ wifiRunAt = Ms(0)
      /\ logRunAt = Ms(0)
      /\ PageMounted
      /\ RouteIdle
      /\ downStreak = 0
      /\ streakBase = 0
      /\ streakFromUp = FALSE
      /\ justConnected = FALSE

\* lines 116, 222-227: the check finds the link down; a drop is counted if
\* the supervisor believed itself connected
MonitorBegin ==
  /\ pc = "L116"
  /\ ~linkUp
  /\ wifiReconnectAttempts' =
       wifiReconnectAttempts + (IF wifiConnected THEN 1 ELSE 0)
  /\ wifiConnected' = FALSE
  /\ calls' = Append(calls, "monitorWiFiConnection")
  /\ pc' = "C192"
  /\ UNCHANGED << upTime, led, currentMillis, latestData, timers, linkUp,
                  server, pending, response, ticks, tickAt, tslBegin, probe,
                  attempts, sensorHist, linkHist, runHist, web >>

\* lines 228, 186-206: WiFi.disconnect(true); delay(1000); the enterprise
\* settings; WiFi.begin(ssid); int attempts = 0
ConnectBegin ==
  /\ pc = "C192"
  /\ linkUp' = FALSE
  /\ upTime' = Plus(upTime, Ms(ConnectDelay))
  /\ attempts' = 0
  /\ calls' = Append(calls, "connectToNYUWiFi")
  /\ pc' = "C208"
  /\ UNCHANGED << led, currentMillis, latestData, timers, linkState, server,
                  pending, response, ticks, tickAt, tslBegin, probe,
                  sensorHist, linkHist, runHist, web >>

\* the loop condition with <= for <
ConnectWaitingOneMore == ~linkUp /\ attempts <= MaxAttempts

\* line 208: WiFi.status() != WL_CONNECTED && attempts < 30
ConnectWaiting == ~linkUp /\ attempts < MaxAttempts

\* a poll that yields to the web server while it waits
ConnectPollServing ==
  /\ pc = "C208"
  /\ ConnectWaiting
  /\ upTime' = Plus(upTime, Ms(ConnectDelay))
  /\ attempts' = attempts + 1
  /\ IF pending = "none"
       THEN UNCHANGED << pending, response >>
       ELSE /\ response' = HandleClientResult(pending)
            /\ pending' = "none"
  /\ UNCHANGED << pc, led, currentMillis, latestData, timers, linkState,
                  linkUp, server, ticks, calls, tickAt, tslBegin,
                  probe, sensorHist, linkHist, runHist, web >>

\* lines 208-212: one attempt: delay(1000); attempts++
ConnectPoll ==
  /\ pc = "C208"
  /\ ConnectWaiting
  /\ upTime' = Plus(upTime, Ms(ConnectDelay))
  /\ attempts' = attempts + 1
  /\ UNCHANGED << pc, led, currentMillis, latestData, timers, linkState,
                  linkUp, server, pending, response, ticks, calls, tickAt,
                  tslBegin, probe, sensorHist, linkHist, runHist, web >>

\* lines 208, 214-219: the loop is left, the result printed, and
\* connectToNYUWiFi returns
ConnectReturn ==
  /\ pc = "C208"
  /\ ~ConnectWaiting
  /\ pc' = "L231"
  /\ UNCHANGED << upTime, led, currentMillis, latestData, timers, linkState,
                  linkUp, server, pending, response, ticks, calls, tickAt,
                  tslBegin, probe, attempts, sensorHist, linkHist, runHist, web >>

\* lines 231-235: back in monitorWiFiConnection, the server is restarted if
\* the link is up
MonitorResume ==
  /\ pc = "L231"
  /\ LET reconnected == linkUp /\ ~wifiConnected IN
       /\ wifiConnected' = (IF reconnected THEN TRUE ELSE wifiConnected)
       /\ server' = (IF reconnected THEN [server EXCEPT !.started = TRUE]
                                    ELSE server)
       /\ calls' = calls \o (IF reconnected THEN << "server.begin" >>
                                            ELSE << >>)
       /\ justConnected' = (IF reconnected THEN TRUE ELSE justConnected)
  /\ wifiRunAt' = tickAt
  /\ pc' = Flow("L116", FALSE)
  /\ UNCHANGED << upTime, led, currentMillis, latestData, timers,
                  wifiReconnectAttempts, linkUp, pending, response, ticks,
                  tickAt, tslBegin, probe, attempts, sensorHist, downStreak,
                  streakBase, streakFromUp, logRunAt, web >>

\* the statements of the link check
ConnectStep ==
  \/ MonitorBegin
  \/ ConnectBegin
  \/ ConnectPoll
  \/ ConnectReturn
  \/ MonitorResume

ConnectNext ==
  \/ MonitorBegin
  \/ ConnectBegin
  \/ ConnectPoll
  \/ ConnectReturn
  \/ MonitorResume
  \/ LinkDrop
  \/ LinkRestore
  \/ ClientRequest

\* every statement returns (delay(1000) included), so the check goes on
ConnectSpec == ConnectInit /\ [][ConnectNext]_vars /\ WF_vars(ConnectStep)

\* ------------------------------------------------- one sample, then /data
\* The first loop() call, 250 ms after a boot that connected at once, at
\* line 110: the sampler was found due and no sample has been taken yet.
SampleInit ==
  LET now == Ms(BootDelay + ConnectDelay + 250) IN
    /\ pc = "L110"
    /\ upTime = now
    /\ led = TRUE
    /\ currentMillis = now
    /\ latestData = DefaultData
    /\ prevSensorMillis = now
    /\ previousWiFiMillis = Ms(0)
    /\ wifiLogMillis = Ms(0)
    /\ wifiConnected = TRUE
    /\ wifiReconnectAttempts = 0
    /\ linkUp = TRUE
    /\ server = [started |-> TRUE, routes |-> {"/", "/data"}, cors |-> TRUE]
    /\ pending = "none"
    /\ response = NoResponse
    /\ ticks = 1
    /\ calls = << "handleClient" >>
    /\ tickAt = now
    /\ tslBegin = "found"
    /\ probe = NoProbe
    /\ attempts = 0
    /\ sensorRunAt = Ms(0)
    /\ lastRead = [full |-> 0, lux |-> 0, at |-> Ms(0), before |-> 0]
    /\ sampled = FALSE
    /\ wifiRunAt = Ms(0)
    /\ logRunAt = Ms(0)
    /\ PageMounted
    /\ RouteIdle
    /\ downStreak = 0
    /\ streakBase = 0
    /\ streakFromUp = FALSE
    /\ justConnected = FALSE

\* the sample, the rest of that loop() call, a request, and the next call
\* up to its handleClient()
SampleNext ==
  \/ SampleWide
  \/ WiFiDue
  \/ LogDue
  \/ ClientRequest
  \/ LoopBegin
  \/ HandleClient

SampleSpec == SampleInit /\ [][SampleNext]_vars

\* ------------------------------------------ the due tests at the rollover
\* A loop() call that ran all three tasks has returned, `back` ms before
\* millis() rolls over (the device has been up for 49.7 days, link up).
DueInit ==
  \E back \in DueBacks, r \in Readings, d \in ReadDelays :
    LET now == Minus([hi |-> TwoTo16, lo |-> 0], Ms(back))
        done == Plus(now, Ms(d))
    IN
      /\ pc = "L102"
      /\ upTime = done
      /\ led = TRUE
      /\ currentMillis = millis(now)
      /\ latestData = readLightSensor(r, millis(done))
      /\ prevSensorMillis = millis(now)
      /\ previousWiFiMillis = millis(now)
      /\ wifiLogMillis = millis(now)
      /\ wifiConnected = TRUE
      /\ wifiReconnectAttempts = 0
      /\ linkUp = TRUE
      /\ server = [started |-> TRUE, routes |-> {"/", "/data"}, cors |-> TRUE]
      /\ pending = "none"
      /\ response = NoResponse
      /\ ticks = MaxTicks - DueTicks
      /\ calls = << "handleClient", "readLightSensor",
                    "monitorWiFiConnection", "logDetailedWiFiStatus" >>
      /\ tickAt = now
      /\ tslBegin = "found"
      /\ probe = NoProbe
      /\ attempts = 0
      /\ sensorRunAt = now
      /\ lastRead = [full |-> r.full, lux |-> r.lux, at |-> done, before |-> 0]
      /\ sampled = TRUE
      /\ wifiRunAt = now
      /\ logRunAt = now
      /\ PageMounted
      /\ RouteIdle
      /\ downStreak = 0
      /\ streakBase = 0
      /\ streakFromUp = FALSE
      /\ justConnected = FALSE

\* loop(), called again and again with the link up
DueNext ==
  \/ TickWide
  \/ HandleClient
  \/ SensorDue
  \/ SensorBody
  \/ WiFiDue
  \/ WiFiBody
  \/ LogDue
  \/ LogBody

DueSpec == DueInit /\ [][DueNext]_vars

\* ------------------------------------------------------------------ claims
\* number of times the current setup()/loop() call invoked function f
Count(f) == Cardinality({i \in DOMAIN calls : calls[i] = f})

\* the loop() call number `ticks` has returned
TickDone == pc = "L102" /\ ticks >= 1

\* the sensor due test of the current loop() call has been passed
PastSensorTest == pc \in {"L114", "L116", "L120", "L122"} \/ TickDone

\* C1: skip/drop scheduling.  In every loop() call each periodic task runs at
\* most once, a task that ran has its timer equal to that call's
\* currentMillis (not advanced by one interval), and a first call at
\* now = 31000 with all timers at 0 runs each of the three tasks exactly once.
C1_SkipDrop ==
  /\ Count("readLightSensor") <= 1
  /\ Count("monitorWiFiConnection") <= 1
  /\ Count("logDetailedWiFiStatus") <= 1
  /\ pc \in {"L110", "L114", "L116", "L120", "L122", "L102"} =>
       /\ Count("readLightSensor") = 1 \/ pc = "L110"
            => prevSensorMillis = currentMillis
       /\ Count("monitorWiFiConnection") = 1 => previousWiFiMillis = currentMillis
       /\ Count("logDetailedWiFiStatus") = 1 => wifiLogMillis = currentMillis
  /\ (TickDone /\ ticks = 1 /\ currentMillis = Ms(31000)) =>
       /\ Count("readLightSensor") = 1
       /\ Count("monitorWiFiConnection") = 1
       /\ Count("logDetailedWiFiStatus") = 1

\* C1 witness: the first loop() call came at now = 31000 and ran all three.
C1_Witness ==
  /\ TickDone /\ ticks = 1 /\ currentMillis = Ms(31000)
  /\ Count("readLightSensor") = 1
  /\ Count("monitorWiFiConnection") = 1
  /\ Count("logDetailedWiFiStatus") = 1
  /\ prevSensorMillis = Ms(31000)
  /\ previousWiFiMillis = Ms(31000)
  /\ wifiLogMillis = Ms(31000)

\* true time elapsed between the tick of the sampler's previous run (boot, if
\* it never ran) and the current tick
SensorElapsed == Minus(tickAt, sensorRunAt)

CounterStep ==
  wifiReconnectAttempts' =
    wifiReconnectAttempts
      + (IF pc = "L116" /\ ~linkUp /\ wifiConnected THEN 1 ELSE 0)

\* C3: wifiReconnectAttempts counts detected drops, not probes.  It grows by
\* exactly one in the check that finds the link down while the supervisor
\* believed itself connected and in no other step; over a run of consecutive
\* failed checks it is one above its value before the run if the run began
\* with a drop, and unchanged otherwise.
C3_CountsDrops ==
  /\ [](downStreak >= 1 =>
          wifiReconnectAttempts = streakBase + (IF streakFromUp THEN 1 ELSE 0))
  /\ [][CounterStep]_vars

\* C3 witness: a drop followed by five consecutive failed checks, the counter
\* one above its value before the drop.
C3_Witness ==
  /\ downStreak = 5
  /\ streakFromUp
  /\ wifiReconnectAttempts = streakBase + 1

\* C4: every entry into Connected restarts the listener.  A link check that
\* takes wifiConnected from false to true invokes server.begin() within that
\* same check.
C4_EveryEntryRestartsListener ==
  (justConnected /\ pc \in {"L120", "L122", "L102"}) => Count("server.begin") = 1

\* C5: after a transition into Connected made by the link supervisor, a GET
\* /data handled on the immediately following tick is answered with status
\* 200 and the current snapshot.
C5_NextTickDataSucceeds ==
  [][(pc = "L105" /\ justConnected /\ pending = "/data")
       => (response'.status = 200 /\ response' = handleData(latestData))]_vars

\* the four fields of a /data response, in order
DataFields == << "visible_ir", "ir", "lux", "timestamp" >>

\* handleClient has just answered a request for /data
AnsweredData == pc = "L108" /\ response.path = "/data" /\ response.status # 0

LastSample ==
  [visible_ir |-> lastRead.full % TwoTo16,
   ir         |-> lastRead.full \div TwoTo16,
   lux        |-> lastRead.lux,
   timestamp  |-> millis(lastRead.at)]

\* C7: latest-complete-sample semantics.  In every state latestData is, in
\* all four fields together, the snapshot of the most recently completed
\* readLightSensor call, and a /data response reports exactly that snapshot
\* (lux with two decimals).
C7_LatestCompleteSample ==
  /\ latestData = LastSample
  /\ (response.path = "/data" /\ response.status = 200) =>
        response.body = << <<"visible_ir", LastSample.visible_ir>>,
                           <<"ir", LastSample.ir>>,
                           <<"lux", (LastSample.lux + 5) \div 10>>,
                           <<"timestamp", LastSample.timestamp>> >>

\* C7 witness: samples (broadband 100, ir 10) then (broadband 50, ir 5), and
\* /data reports the second only.
C7_Witness ==
  /\ AnsweredData /\ response.status = 200
  /\ lastRead.before = 10 * TwoTo16 + 100
  /\ lastRead.full = 5 * TwoTo16 + 50
  /\ response.body[1] = <<"visible_ir", 50>>
  /\ response.body[2] = <<"ir", 5>>
  /\ response.body[3] = <<"lux", 568>>
  /\ response.body[4] = <<"timestamp", millis(lastRead.at)>>

\* C8: the timestamp field never decreases from one write of latestData to
\* the next.
C8_TimestampNonDecreasing ==
  [][Geq(latestData'.timestamp, latestData.timestamp)]_vars

\* the functions loop() calls directly, in source order
LoopTasks == << "handleClient", "readLightSensor", "monitorWiFiConnection",
                "logDetailedWiFiStatus" >>

\* the place of f in that order
Rank(f) == CHOOSE i \in 1..4 : LoopTasks[i] = f

\* the calls made directly by the current loop() call
TaskCalls == SelectSeq(calls, LAMBDA f : \E i \in 1..4 : LoopTasks[i] = f)

\* how many of the four statements of loop() the current call has passed
Stage ==
  CASE pc = "L105" -> 0
    [] pc \in {"L108", "L110"} -> 1
    [] pc \in {"L114", "L116"} -> 2
    [] pc \in {"L120", "L122"} -> 3
    [] OTHER -> 4

\* C9: fixed priority order inside every tick: request handling, then the
\* sensor sample if due, then the link check if due, then the detailed link
\* log if due; a task whose timer was reset has completed before the next
\* due test is evaluated.
C9_FixedOrder ==
  (ticks >= 1) =>
    /\ \A i \in DOMAIN TaskCalls :
         /\ Rank(TaskCalls[i]) <= Stage
         /\ i > 1 => Rank(TaskCalls[i - 1]) < Rank(TaskCalls[i])
    /\ Stage >= 1 => (TaskCalls # << >> /\ TaskCalls[1] = "handleClient")
    /\ (Stage >= 2 /\ prevSensorMillis = currentMillis)
         => Count("readLightSensor") = 1
    /\ (Stage >= 3 /\ previousWiFiMillis = currentMillis)
         => Count("monitorWiFiConnection") = 1
    /\ (Stage >= 4 /\ wifiLogMillis = currentMillis)
         => Count("logDetailedWiFiStatus") = 1

\* C9 witness: a later tick, link down, that ran all four in order.
C9_Witness ==
  /\ pc = "L102" /\ ticks >= 2
  /\ calls = << "handleClient", "readLightSensor", "monitorWiFiConnection",
                "connectToNYUWiFi", "logDetailedWiFiStatus" >>

\* C10: fatal boot failure.  Once tsl.begin() has returned false the device
\* is in the blink loop: no loop() call has run, no sample was written, no
\* connect sequence was started, the server is not started and nothing was
\* answered.
C10_FatalBoot ==
  (tslBegin = "missing") =>
    /\ pc = "blink"
    /\ ticks = 0
    /\ ~sampled /\ latestData.timestamp = Ms(0) /\ latestData.visible_ir = 0
    /\ latestData.ir = 0 /\ latestData.lux = 0
    /\ Count("connectToNYUWiFi") = 0
    /\ ~linkUp /\ ~wifiConnected
    /\ ~server.started /\ server.routes = {}
    /\ pending = "none" /\ response = NoResponse

\* C10 witness: the blink loop after several toggles of the LED.
C10_Witness ==
  /\ tslBegin = "missing"
  /\ pc = "blink"
  /\ ~led
  /\ Geq(upTime, Ms(BootDelay + 5 * BlinkDelay))

\* the steps of setup() and loop(): the Arduino core calls setup() once and
\* then loop() again and again, and every function they call returns
LoopStep ==
  \/ SetupSensorMissing
  \/ Blink
  \/ SetupSensorFound
  \/ testInternetConnection
  \/ SetupServer
  \/ LoopBegin
  \/ HandleClient
  \/ SensorDue
  \/ SensorBody
  \/ WiFiDue
  \/ WiFiBody
  \/ LogDue
  \/ LogBody

\* the program under fair ticking: a statement of setup() or loop() that can
\* be executed is executed
FairSpec == Init /\ [][Next]_vars /\ WF_vars(LoopStep)

\* C11: link recovery never gives up.  Under fair ticking every scheduled
\* link check returns, and when the network has accepted the connection by
\* then (the link is up on return) the supervisor is Connected
\* (wifiConnected = true) with the server listener started.
C11_RecoveryReachesServing ==
  \A k \in 1..MaxTicks :
    (pc = "L116" /\ ticks = k)
      ~> (pc = "L120" /\ ticks = k
            /\ (linkUp => (wifiConnected /\ server.started)))

\* C12: every entry into Connected triggers exactly one reachability probe:
\* setup() that returns connected has called testInternetConnection once,
\* and so has every link check that took wifiConnected from false to true.
C12_EveryEntryProbes ==
  /\ (pc = "L102" /\ ticks = 0 /\ wifiConnected)
       => Count("testInternetConnection") = 1
  /\ (justConnected /\ pc \in {"L120", "L122", "L102"})
       => Count("testInternetConnection") = 1

\* the state a reachability probe must leave alone
ProbeFrame == << wifiConnected, wifiReconnectAttempts, latestData, timers,
                 server >>

\* C13: a reachability probe has no effect whatever its outcome.  The step
\* that runs testInternetConnection leaves wifiConnected,
\* wifiReconnectAttempts, latestData, the three timers and the server's
\* started/route state unchanged for every result (200, another code, link
\* not connected), and setup() goes on to start the server with both routes
\* after any of them.
C13_ProbeNoEffect ==
  /\ [][pc = "L79" => (probe'.ran /\ UNCHANGED ProbeFrame)]_vars
  /\ [](pc = "L82" =>
          /\ probe \in ProbeOutcomes
          /\ wifiConnected /\ wifiReconnectAttempts = 0
          /\ latestData = DefaultData
          /\ timers = << Ms(0), Ms(0), Ms(0) >>)
  /\ []((pc = "L102" /\ ticks = 0 /\ Count("testInternetConnection") = 1) =>
          /\ wifiConnected
          /\ server = [started |-> TRUE, routes |-> {"/", "/data"},
                       cors |-> TRUE])

\* C13 witness: the probe has just failed with a code other than 200, the
\* flag still set and the server about to be started.
C13_Witness ==
  /\ pc = "L82"
  /\ probe.linked /\ probe.code = 503
  /\ wifiConnected

\* the time at which the link check under way was entered (the sampler had
\* just returned)
ConnectEntryTime == lastRead.at

\* the result of the connect sequence just finished is one the summary
\* connectToNYUWiFi(upAfter) gives
ConnectSummarised ==
  \E upAfter \in 0..(MaxAttempts + 1) :
    LET c == connectToNYUWiFi(upAfter) IN
      /\ c.attempts = attempts
      /\ c.connected = linkUp
      /\ upTime = Plus(ConnectEntryTime, Ms(c.spent))

\* C14: every connect sequence terminates and is never cancelled.  Under
\* fair execution the link check returns; connectToNYUWiFi makes at most 30
\* attempts, each one fixed 1000 ms delay (after the 1000 ms that follow
\* WiFi.disconnect), and leaves its loop only with the link connected or the
\* attempts exhausted; the check runs one connect sequence and, the attempts
\* exhausted, returns to loop() without starting another.
C14_ConnectTerminates ==
  /\ <>(pc = "L120")
  /\ [](attempts <= MaxAttempts /\ Count("connectToNYUWiFi") <= 1)
  /\ [](pc = "C208" =>
          upTime = Plus(ConnectEntryTime,
                        Ms(ConnectDelay + attempts * ConnectDelay)))
  /\ [](pc \in {"L231", "L120"} =>
          /\ Count("connectToNYUWiFi") = 1
          /\ linkUp \/ attempts = MaxAttempts
          /\ ConnectSummarised)
  /\ [][(pc \in {"C192", "C208"} /\ pc' # pc) =>
          (pc' = "C208" \/ (pc' = "L231" /\ ~ConnectWaiting))]_vars

\* C14 witness: the link check has returned after 30 attempts with the link
\* still down, one connect sequence made.
C14_Witness ==
  /\ pc = "L120"
  /\ attempts = MaxAttempts
  /\ ~linkUp /\ ~wifiConnected
  /\ upTime = Plus(ConnectEntryTime, Ms(ConnectDelay + MaxAttempts * ConnectDelay))
  /\ Count("connectToNYUWiFi") = 1

\* what the rest of the program owns: the snapshot and the sampler's
\* history, the answer given to a client, the other two timers
ConnectFrame == << latestData, sensorHist, response, prevSensorMillis,
                   wifiLogMillis, currentMillis >>

\* C15: the connect sequence blocks globally.  From its start to its end,
\* whatever the number of attempts (0 to 30), latestData is unchanged, no
\* request is handled (one that arrives stays pending, nothing is answered)
\* and no other task of loop() is called.
C15_ConnectBlocks ==
  /\ [][(pc \in {"C192", "C208"}) =>
          (/\ UNCHANGED ConnectFrame
           /\ (pending # "none" => pending' = pending)
           /\ (calls' = calls \/ calls' = Append(calls, "connectToNYUWiFi")))]_vars
  /\ [](pc \in {"C208", "L231"} =>
          /\ attempts \in 0..MaxAttempts
          /\ calls = << "handleClient", "readLightSensor",
                        "monitorWiFiConnection", "connectToNYUWiFi" >>
          /\ response = NoResponse
          /\ latestData = LastSample
          /\ latestData.timestamp = millis(ConnectEntryTime))

\* C15 witness: a connect sequence ends after 17 attempts; a request for
\* /data that arrived meanwhile is still waiting, unanswered.
C15_Witness ==
  /\ pc = "L231"
  /\ attempts = 17
  /\ linkUp
  /\ pending = "/data"
  /\ response = NoResponse

\* C16: in every state in which the server listener has been started, both
\* routes are registered and the cross-origin policy is enabled, and every
\* answer given to /data carries the cross-origin header.
C16_StartedServerIsComplete ==
  /\ server.started =>
       (server.routes = {"/", "/data"} /\ server.cors)
  /\ (response.path = "/data" /\ response.status # 0) => response.cors

\* a connect sequence has run in the current setup()/loop() call
RanConnect == Count("connectToNYUWiFi") >= 1

\* C17: the supervisor's state never goes from Disconnected directly to
\* Connected: wifiConnected becomes true only in a step that ran a connect
\* sequence, which succeeded.
C17_OnlyListedTransitions ==
  [][(~wifiConnected /\ wifiConnected') => (RanConnect' /\ linkUp')]_vars

\* C17 as amended: besides the four listed transitions there is a fifth,
\* Disconnected to Connected, taken by a link check that finds the link
\* already up (no connect sequence, no time spent); Connected is entered
\* only so or at the end of a successful connect sequence, every check that
\* finds the link down runs a connect sequence, and Connected is left only
\* by such a check.
C17_TransitionsWithRestore ==
  [][/\ (~wifiConnected /\ wifiConnected') =>
          \/ RanConnect' /\ linkUp'
          \/ pc = "L116" /\ linkUp /\ linkUp' /\ ~RanConnect'
               /\ upTime' = upTime
     /\ (pc = "L116" /\ ~linkUp) => RanConnect'
     /\ (wifiConnected /\ ~wifiConnected') =>
          (pc = "L116" /\ ~linkUp /\ RanConnect' /\ ~linkUp')]_vars

\* C17 witness: a link check found the link up while the flag was false and
\* set it, no connect sequence having run in that tick.
C17_Witness ==
  /\ pc = "L120"
  /\ justConnected /\ wifiConnected /\ linkUp
  /\ Count("monitorWiFiConnection") = 1
  /\ ~RanConnect

\* C18: timer update ordering.  A task's lastRun value changes only in a
\* step by which that task's body has completed in the current tick, and is
\* then that tick's now.
C18_TimerAfterBody ==
  [][/\ (prevSensorMillis' # prevSensorMillis) =>
          (prevSensorMillis' = currentMillis
             /\ Count("readLightSensor")' = 1)
     /\ (previousWiFiMillis' # previousWiFiMillis) =>
          (previousWiFiMillis' = currentMillis
             /\ Count("monitorWiFiConnection")' = 1)
     /\ (wifiLogMillis' # wifiLogMillis) =>
          (wifiLogMillis' = currentMillis
             /\ Count("logDetailedWiFiStatus")' = 1)]_vars

\* C18 as amended: a task's lastRun value changes only on a tick in which
\* that task runs, is written immediately before the task body starts (by
\* the due test that found it due, the body being the next statement
\* executed), and is set to that tick's now; on a tick where the task is not
\* due its lastRun is unchanged, and the body leaves it as written.
C18_TimerBeforeBody ==
  /\ [][/\ (prevSensorMillis' # prevSensorMillis) =>
             (pc = "L108" /\ SensorIsDue /\ pc' = "L110"
                /\ prevSensorMillis' = currentMillis
                /\ Count("readLightSensor")' = 0)
        /\ (previousWiFiMillis' # previousWiFiMillis) =>
             (pc = "L114" /\ WiFiIsDue /\ pc' = "L116"
                /\ previousWiFiMillis' = currentMillis
                /\ Count("monitorWiFiConnection")' = 0)
        /\ (wifiLogMillis' # wifiLogMillis) =>
             (pc = "L120" /\ LogIsDue /\ pc' = "L122"
                /\ wifiLogMillis' = currentMillis
                /\ Count("logDetailedWiFiStatus")' = 0)
        /\ (pc = "L110") =>
             (Count("readLightSensor")' = 1 /\ UNCHANGED timers)
        /\ (pc = "L116") =>
             (Count("monitorWiFiConnection")' = 1 /\ UNCHANGED timers)
        /\ (pc = "L122") =>
             (Count("logDetailedWiFiStatus")' = 1 /\ UNCHANGED timers)]_vars
  /\ [](/\ pc = "L110" => prevSensorMillis = currentMillis
        /\ pc = "L116" => previousWiFiMillis = currentMillis
        /\ pc = "L122" => wifiLogMillis = currentMillis)

\* C18 witness: on a later tick the link check was found due; its timer
\* already holds that tick's now while monitorWiFiConnection has not run yet.
C18_Witness ==
  /\ pc = "L116"
  /\ ticks >= 2
  /\ previousWiFiMillis = currentMillis
  /\ Count("monitorWiFiConnection") = 0

\* C19: single-writer ownership inside the loop.  latestData is modified
\* only by readLightSensor, wifiConnected and wifiReconnectAttempts only by
\* monitorWiFiConnection (setup() apart); request handling, the detailed
\* link log and the sampler leave what they do not own unchanged.
C19_SingleWriter ==
  [][/\ (latestData' # latestData) => pc = "L110"
     /\ (linkState' # linkState) => pc \in {"L116", "setup"}
     /\ (pc = "L105") =>
          UNCHANGED << latestData, timers, linkState, server, linkUp,
                       upTime >>
     /\ (pc = "L110") =>
          UNCHANGED << timers, linkState, server, linkUp, pending,
                       response >>
     /\ (pc = "L122") =>
          UNCHANGED << latestData, timers, linkState, server, linkUp,
                       pending, response, upTime >>]_vars

\* C19 witness: a loop() call that ran handleClient, sampled, counted a
\* drop and printed the detailed log has returned, the snapshot as the
\* sampler wrote it and the counter as the link check left it.
C19_Witness ==
  /\ pc = "L102" /\ ticks >= 1
  /\ sampled /\ latestData = LastSample
  /\ wifiReconnectAttempts = 1
  /\ calls = << "handleClient", "readLightSensor", "monitorWiFiConnection",
                "connectToNYUWiFi", "server.begin", "logDetailedWiFiStatus" >>

\* readLightSensor has just completed
JustSampled == pc = "L114" /\ Count("readLightSensor") = 1

\* C20: immediately after readLightSensor completes, latestData.timestamp
\* equals the now value the tick used for its due comparison and stored in
\* prevSensorMillis.
C20_TimestampIsTickNow ==
  JustSampled =>
    (prevSensorMillis = currentMillis
       /\ latestData.timestamp = prevSensorMillis)

\* C20 as amended: immediately after readLightSensor completes,
\* latestData.timestamp is the value of a second millis() call, made inside
\* readLightSensor once the reading is taken: the time of completion, at or
\* after the tick's now by the time spent since line 102, while
\* prevSensorMillis holds the tick's now.
C20_TimestampIsCompletionTime ==
  JustSampled =>
    /\ prevSensorMillis = currentMillis
    /\ currentMillis = millis(tickAt)
    /\ latestData.timestamp = millis(upTime)
    /\ Geq(upTime, tickAt)

\* C20 witness: a sample of a later tick stamped 250 ms after the tick's now.
C20_Witness ==
  /\ JustSampled
  /\ ticks >= 2
  /\ latestData.timestamp = millis(Plus(tickAt, Ms(250)))
  /\ latestData.timestamp # prevSensorMillis

\* C21: channel decomposition.  A sample of composite value full stores
\* ir = full div 2^16 and visible_ir = full mod 2^16, both within 0..65535,
\* and the /data response that follows reports them under ir and visible_ir
\* respectively, not swapped.
C21_ChannelDecomposition ==
  /\ sampled =>
       /\ latestData.ir = lastRead.full \div TwoTo16
       /\ latestData.visible_ir = lastRead.full % TwoTo16
       /\ latestData.ir \in 0..(TwoTo16 - 1)
       /\ latestData.visible_ir \in 0..(TwoTo16 - 1)
       /\ latestData.ir * TwoTo16 + latestData.visible_ir = lastRead.full
  /\ (sampled /\ response.path = "/data" /\ response.status = 200) =>
       /\ response.body[1] = << "visible_ir", lastRead.full % TwoTo16 >>
       /\ response.body[2] = << "ir", lastRead.full \div TwoTo16 >>

\* C21 witness: the composite 32767 * 2^16 + 65535 was sampled and /data
\* reported ir 32767 and visible_ir 65535.
C21_Witness ==
  /\ sampled
  /\ lastRead.full = 32767 * TwoTo16 + 65535
  /\ response.path = "/data" /\ response.status = 200
  /\ response.body[1] = << "visible_ir", 65535 >>
  /\ response.body[2] = << "ir", 32767 >>

\* true time elapsed between the tick of a task's previous run and the
\* current tick
WiFiElapsed == Minus(tickAt, wifiRunAt)
LogElapsed == Minus(tickAt, logRunAt)

\* C22: interval comparisons are wraparound-safe.  At each due test the
\* 32-bit difference now - lastRun is the time truly elapsed since the
\* task's previous run, also when lastRun lies before the rollover of the
\* counter and now after it, so the test holds exactly when at least one
\* interval has elapsed, and the body runs exactly then.
C22_WraparoundSafe ==
  /\ pc = "L108" =>
       /\ Sub32(currentMillis, prevSensorMillis) = SensorElapsed
       /\ SensorIsDue <=> Geq(SensorElapsed, Ms(sensorInterval))
  /\ pc = "L114" =>
       /\ Sub32(currentMillis, previousWiFiMillis) = WiFiElapsed
       /\ WiFiIsDue <=> Geq(WiFiElapsed, Ms(wifiCheckInterval))
  /\ pc = "L120" =>
       /\ Sub32(currentMillis, wifiLogMillis) = LogElapsed
       /\ LogIsDue <=> Geq(LogElapsed, Ms(wifiLogInterval))
  /\ pc = "L110" => Geq(SensorElapsed, Ms(sensorInterval))
  /\ pc = "L116" => Geq(WiFiElapsed, Ms(wifiCheckInterval))
  /\ pc = "L122" => Geq(LogElapsed, Ms(wifiLogInterval))
  /\ (pc = "L114" /\ Count("readLightSensor") = 0)
       => ~Geq(SensorElapsed, Ms(sensorInterval))
  /\ (pc = "L120" /\ Count("monitorWiFiConnection") = 0)
       => ~Geq(WiFiElapsed, Ms(wifiCheckInterval))
  /\ (pc = "L102" /\ Count("logDetailedWiFiStatus") = 0 /\ calls # << >>)
       => ~Geq(LogElapsed, Ms(wifiLogInterval))

\* C22 witness: the link check last ran 5000 ms before the rollover; on the
\* tick that comes exactly 10000 ms later, after the rollover, it is found
\* due.
C22_Witness ==
  /\ pc = "L116"
  /\ previousWiFiMillis = currentMillis
  /\ currentMillis = Ms(5000)
  /\ wifiRunAt = [hi |-> TwoTo16 - 1, lo |-> TwoTo16 - 5000]
  /\ WiFiElapsed = Ms(wifiCheckInterval)

\* C23: no starvation of sampling during an outage.  After a link check
\* whose connect sequence failed, the next loop() call finds the sampler and
\* the link check due again; when that check is about to start the next
\* connect sequence (link still down), the loop has made one
\* request-handling check and exactly one sample since the previous
\* sequence, and the snapshot is the one of this tick.
C23_SamplingNotStarved ==
  (downStreak >= 1) =>
    /\ pc = "L108" => SensorIsDue
    /\ pc = "L114" => WiFiIsDue
    /\ (pc = "L116" /\ ~linkUp) =>
         /\ calls = << "handleClient", "readLightSensor" >>
         /\ sensorRunAt = tickAt
         /\ latestData = LastSample
         /\ Geq(lastRead.at, tickAt)
         /\ Geq(Minus(tickAt, wifiRunAt),
                Ms(ConnectDelay + MaxAttempts * ConnectDelay))

\* C23 witness: three connect sequences have failed in a row, the link is
\* still down, and the fourth check is about to start after one
\* handleClient and one sample.
C23_Witness ==
  /\ downStreak = 3
  /\ pc = "L116" /\ ~linkUp
  /\ calls = << "handleClient", "readLightSensor" >>
  /\ sensorRunAt = tickAt

\* C27: flag/status consistency.  When a monitorWiFiConnection call has
\* returned (the loop is past line 116 in a tick whose link check ran),
\* wifiConnected equals the network status the call observed last, whatever
\* the flag was before and whatever the connect sequence achieved.
C27_FlagMatchesStatus ==
  (pc \in {"L120", "L122"} /\ Count("monitorWiFiConnection") = 1) =>
    (wifiConnected <=> linkUp)

\* C27, as a step property: every step that returns from the link check
\* leaves the flag equal to the status.
C27_CheckStepAgrees ==
  [][ ((pc = "L116") /\ (pc' # "L116")) => (wifiConnected' <=> linkUp') ]_vars

\* C27 witness: a check that entered with the flag clear and the link down
\* has ended with a successful connect sequence and the flag set.
C27_Witness ==
  /\ pc = "L120"
  /\ calls = << "handleClient", "readLightSensor", "monitorWiFiConnection",
                "connectToNYUWiFi", "server.begin" >>
  /\ wifiConnected /\ linkUp
  /\ wifiReconnectAttempts = 0

\* C27 witness, second case: a check that entered with the flag set and the
\* link down has ended with a failed connect sequence and the flag clear.
C27_WitnessLost ==
  /\ pc = "L120"
  /\ Count("connectToNYUWiFi") = 1
  /\ ~wifiConnected /\ ~linkUp
  /\ wifiReconnectAttempts = 1
  /\ downStreak = 1

\* C25: bounded chart window of the mock-API page.  After any sequence of
\* polls, Pause clicks and Resume clicks, dataPoints holds at most
\* Keep + 1 = 30 points, however many points were buffered while paused.
C25_WindowBounded == Len(dataPoints) <= Keep + 1

\* C25, the part the code keeps: a poll response never makes the series
\* longer than Keep + 1, and neither does a Resume with fewer than Keep
\* buffered points.
C25_PollKeepsWindow ==
  [][ (bufferedPoints' = bufferedPoints \/ Len(bufferedPoints) < Keep)
        => (Len(dataPoints') <= Keep + 1 \/ Len(dataPoints') <= Len(dataPoints)) ]_vars

\* the readings of sequence s, as a bag
BagOf(s) == [x \in {s[i] : i \in DOMAIN s} |-> Cardinality({i \in DOMAIN s : s[i] = x})]

\* C24: pause semantics of the device page under in-flight polls.  While
\* isPaused holds the series shown is the one shown at the Pause click and
\* the readings arrived since are in bufferedPoints; while it does not hold
\* bufferedPoints is empty; and the series followed by the buffer is always
\* the successfully fetched readings, each once, in arrival order.  All this
\* also for a fetch started before a click and answered after it.
C24_PauseSemantics ==
  /\ isPaused => dataPoints = shownAtPause
  /\ ~isPaused => bufferedPoints = << >>
  /\ dataPoints \o bufferedPoints = arrived

\* C24, the part the code keeps: no reading is lost or shown twice; every
\* successfully fetched reading is in the series or in the buffer, once.
C24_NoLossNoDuplicate ==
  BagOf(dataPoints \o bufferedPoints) = BagOf(arrived)

\* C24, the sequential case: when no fetch was under way at the last click
\* and every fetch since used the closure of the current effect, the pause
\* semantics hold.
C24_HoldsWithoutStaleFetch ==
  [][ (C24_PauseSemantics /\ \A f \in inFlight : f.paused = isPaused)
        => C24_PauseSemantics' ]_vars

\* C26: error mapping of the proxy route.  Once GET has returned: without
\* an ip parameter the status is 400 and the device was never contacted; a
\* fired timer (no answer within 5 seconds) gives 504; a fetch that failed
\* otherwise, and a body that is not JSON, give 502; a non-OK device status
\* is returned unchanged; 200 is returned only for an OK device response,
\* with the device's JSON; and the timer, once armed, has been cleared.
C26_ErrorMapping ==
  (routePc = "returned") =>
    /\ (ip = "") => (reply.status = 400 /\ fetches = 0 /\ timeoutId = "undefined")
    /\ (ip # "") => fetches = 1
    /\ (timeoutId = "fired") => (reply.status = 504 /\ waited >= TimeoutMs)
    /\ (ip # "" /\ timeoutId # "fired" /\ res = NoRes) => reply.status = 502
    /\ (res # NoRes /\ ~Ok(res.status)) => reply.status = res.status
    /\ (res # NoRes /\ Ok(res.status)) =>
         \/ res.body \in DeviceJson /\ reply.status = 200 /\ reply.body = res.body
         \/ res.body \notin DeviceJson /\ reply.status = 502
    /\ (reply.status = 200) =>
         (res # NoRes /\ Ok(res.status) /\ reply.body = res.body
            /\ res.body \in DeviceJson)
    /\ (timeoutId # "undefined") => cleared
    /\ (reply.status = 504) => timeoutId = "fired"

\* C26 witness: the device did not answer for 5 seconds, the timer fired and
\* 504 was returned.
C26_Witness ==
  /\ routePc = "returned"
  /\ ip # ""
  /\ waited >= TimeoutMs
  /\ timeoutId = "fired" /\ signal /\ cleared
  /\ reply.status = 504

\* C26 witness, pass-through: the device answered 503 after 2 steps of
\* waiting and 503 was returned.
C26_WitnessPassThrough ==
  /\ routePc = "returned"
  /\ res.status = 503
  /\ reply.status = 503
  /\ waited = 2 * WaitStep
  /\ cleared
====
